---- MODULE Spec2Model ----
(***************************************************************************)
(* form2mail: an HTTP endpoint that relays contact-form submissions as two *)
(* e-mails over SMTP.  The module models the startup sequence of           *)
(* cmd/server/main.go, the configuration loader, the request handler       *)
(* ContactHandler.ServeHTTP and the SMTP session of Sender.Send.           *)
(*                                                                         *)
(* A Go string is modelled as a sequence of tokens (a token is a TLA+      *)
(* string); the empty string is the empty sequence, concatenation is \o.   *)
(***************************************************************************)
EXTENDS Naturals, Sequences, FiniteSets, TLC

VARIABLES
    env,        \* the process environment: variable name -> string ("" when unset)
    mainpc,     \* position of func main
    cfg,        \* the config.Config value held by main
    sender,     \* the email.Sender built by NewSender (its copy of the config)
    handler,    \* the ContactHandler built by NewContactHandler
    mux,        \* the routes registered on http.DefaultServeMux
    served,     \* number of requests the server has accepted so far
    pc,         \* per connection: position of the goroutine running ServeHTTP
    req,        \* per connection: the request being handled
    form,       \* per connection: the local variable form of ServeHTTP
    bodyRead,   \* per connection: whether r.Body has been read
    resp,       \* per connection: the http.ResponseWriter
    calls,      \* per connection: the Sender methods called by the handler, in order
    send,       \* per connection: arguments and locals of the running Sender.Send
    smtp,       \* per connection: the SMTP session of the running Sender.Send
    delivered,  \* per connection: messages the SMTP server accepted for delivery
    logged      \* per connection: lines written by log.Printf

vars == <<env, mainpc, cfg, sender, handler, mux, served, pc, req, form,
          bodyRead, resp, calls, send, smtp, delivered, logged>>

mainVars == <<env, mainpc, cfg, sender, handler, mux>>
connVars == <<pc, req, form, bodyRead, resp, calls, send, smtp, delivered, logged>>

(***************************************************************************)
(* Bounds of the model.                                                    *)
(***************************************************************************)
\* number of requests the server accepts during one run of the process
MaxRequests == 2

(***************************************************************************)
(* Strings.                                                                *)
(***************************************************************************)
EmptyString == << >>

\* strings.Contains(s, sub) for a one-token sub
Contains(s, sub) == \E i \in 1..Len(s) : s[i] = sub

\* strings.ReplaceAll(s, old, new) for one-token old and new
ReplaceAll(s, old, new) == [i \in 1..Len(s) |-> IF s[i] = old THEN new ELSE s[i]]

RECURSIVE Concat(_)
\* fmt.Sprintf with only %s verbs: the pieces joined in order
Concat(parts) == IF parts = << >> THEN << >> ELSE Head(parts) \o Concat(Tail(parts))

(***************************************************************************)
(* internal/config: Load and getEnv.                                       *)
(***************************************************************************)
EnvKeys == {"SMTP_HOST", "SMTP_PORT", "SMTP_USER", "SMTP_PASSWORD",
            "RECIPIENT_EMAIL", "FROM_EMAIL", "SERVER_PORT", "CORS_ORIGIN"}

\* the environments the process may be started in
Environments ==
    { [k \in EnvKeys |->
          CASE k = "SMTP_HOST"       -> <<"smtp.example.org">>
            [] k = "SMTP_USER"       -> user
            [] k = "SMTP_PASSWORD"   -> password
            [] k = "RECIPIENT_EMAIL" -> recipient
            [] k = "FROM_EMAIL"      -> from
            [] k = "CORS_ORIGIN"     -> origin
            [] OTHER                 -> EmptyString] :
        user \in {EmptyString, <<"user">>},
        password \in {EmptyString, <<"secret">>},
        recipient \in {EmptyString, <<"owner", "@", "site.example">>},
        from \in {EmptyString, <<"noreply", "@", "site.example">>},
        origin \in {EmptyString, <<"https://site.example">>} }

getEnv(e, key, defaultValue) ==
    IF e[key] = EmptyString THEN defaultValue ELSE e[key]

Load(e) ==
    [ SMTPHost       |-> getEnv(e, "SMTP_HOST", <<"smtp.gmail.com">>),
      SMTPPort       |-> getEnv(e, "SMTP_PORT", <<"587">>),
      SMTPUser       |-> getEnv(e, "SMTP_USER", EmptyString),
      SMTPPassword   |-> getEnv(e, "SMTP_PASSWORD", EmptyString),
      RecipientEmail |-> getEnv(e, "RECIPIENT_EMAIL", EmptyString),
      FromEmail      |-> getEnv(e, "FROM_EMAIL", EmptyString),
      ServerPort     |-> getEnv(e, "SERVER_PORT", <<"8080">>),
      CORSOrigin     |-> getEnv(e, "CORS_ORIGIN", <<"*">>) ]

\* the zero value of config.Config
ZeroConfig ==
    [ SMTPHost |-> EmptyString, SMTPPort |-> EmptyString, SMTPUser |-> EmptyString,
      SMTPPassword |-> EmptyString, RecipientEmail |-> EmptyString,
      FromEmail |-> EmptyString, ServerPort |-> EmptyString, CORSOrigin |-> EmptyString ]

(***************************************************************************)
(* cmd/server: func main.                                                  *)
(***************************************************************************)
\* ConfigInvalid without the check of the recipient address
ConfigInvalidNoRecipient(c) ==
    c.SMTPUser = EmptyString \/ c.SMTPPassword = EmptyString

\* the condition under which main calls log.Fatal
ConfigInvalid(c) ==
    c.SMTPUser = EmptyString \/ c.SMTPPassword = EmptyString \/ c.RecipientEmail = EmptyString

NewSender(c) == [config |-> c]

NewContactHandler(emailSender, corsOrigin) ==
    [emailSender |-> emailSender, corsOrigin |-> corsOrigin]

\* cfg := config.Load()
MainLoad ==
    /\ mainpc = "load"
    /\ cfg' = Load(env)
    /\ mainpc' = "validate"
    /\ UNCHANGED <<env, sender, handler, mux, served>>
    /\ UNCHANGED connVars

\* the required-config check: log.Fatal exits the process
MainValidate ==
    /\ mainpc = "validate"
    /\ mainpc' = IF ConfigInvalid(cfg) THEN "fatal" ELSE "init"
    /\ UNCHANGED <<env, cfg, sender, handler, mux, served>>
    /\ UNCHANGED connVars

\* NewSender, NewContactHandler and http.Handle("/contact", contactHandler)
MainRegister ==
    /\ mainpc = "init"
    /\ sender' = NewSender(cfg)
    /\ handler' = NewContactHandler(NewSender(cfg), cfg.CORSOrigin)
    /\ mux' = mux \cup {"/contact"}
    /\ mainpc' = "listen"
    /\ UNCHANGED <<env, cfg, served>>
    /\ UNCHANGED connVars

\* http.ListenAndServe: it either binds the port and serves, or returns an
\* error at once and main calls log.Fatal
MainListen ==
    /\ mainpc = "listen"
    /\ \E bound \in BOOLEAN : mainpc' = IF bound THEN "serving" ELSE "fatal"
    /\ UNCHANGED <<env, cfg, sender, handler, mux, served>>
    /\ UNCHANGED connVars

(***************************************************************************)
(* Requests.  A body is kept in parsed-out form: its syntax and its items. *)
(*   "json"    a JSON object; items are its members in order, each with    *)
(*             the JSON type of its value and, for a string, the escaped   *)
(*             characters between the quotes                               *)
(*   "form"    key=value pairs joined by "&"; raw is the percent-encoded   *)
(*             value                                                       *)
(*   "empty"   a body of length 0                                          *)
(*   "garbage" bytes that are neither JSON nor valid percent-encoding      *)
(***************************************************************************)
Methods == {"OPTIONS", "POST", "GET"}

ContentTypes ==
    { EmptyString,
      <<"application/json">>,
      <<"application/json", "; charset=utf-8">>,
      <<"application/x-www-form-urlencoded">>,
      <<"text/plain">>,
      <<";">> }

FieldKeys == <<"name", "email", "subject", "message">>

Names    == {EmptyString, <<"Ada">>}
Emails   == {EmptyString, <<"ada", "@", "example.com">>}
Subjects == {EmptyString, <<"Hi">>}
Messages == {EmptyString, <<"Hello", "\n", "World">>}

\* the submissions a client may want to make
Submissions ==
    [name : Names, email : Emails, subject : Subjects, message : Messages]

\* what JSON.stringify does to the characters of a string value
JSONEscapeChar(c) == IF c = "\n" THEN "\\n" ELSE c
JSONEscape(s) == [i \in 1..Len(s) |-> JSONEscapeChar(s[i])]

\* what a browser does to a form field value (application/x-www-form-urlencoded)
URLEncodeChar(c) ==
    CASE c = "@"  -> "%40"
      [] c = "\n" -> "%0A"
      [] c = " "  -> "+"
      [] OTHER    -> c
URLEncode(s) == [i \in 1..Len(s) |-> URLEncodeChar(s[i])]

JSONBody(f) ==
    [ syntax |-> "json",
      items  |-> [i \in 1..4 |-> [key  |-> FieldKeys[i], kind |-> "string",
                                  raw  |-> JSONEscape(f[FieldKeys[i]])]] ]

FormBody(f) ==
    [ syntax |-> "form",
      items  |-> [i \in 1..4 |-> [key  |-> FieldKeys[i], kind |-> "pair",
                                  raw  |-> URLEncode(f[FieldKeys[i]])]] ]

\* a body without the member or pair number i
Without(b, i) ==
    [b EXCEPT !.items = SubSeq(b.items, 1, i - 1) \o SubSeq(b.items, i + 1, Len(b.items))]

FullSubmission ==
    [name |-> <<"Ada">>, email |-> <<"ada", "@", "example.com">>,
     subject |-> <<"Hi">>, message |-> <<"Hello", "\n", "World">>]

OddBodies ==
    { [syntax |-> "empty", items |-> << >>],
      [syntax |-> "garbage", items |-> << >>],
      \* {"name": 7, ...}: a number where a string is expected
      [JSONBody(FullSubmission) EXCEPT !.items[1].kind = "number"],
      \* {"name": null, ...}
      [JSONBody(FullSubmission) EXCEPT !.items[1].kind = "null"],
      \* a raw line feed inside a JSON string
      [JSONBody(FullSubmission) EXCEPT !.items[4].raw = <<"Hello", "\n", "World">>],
      \* message=%zz: an invalid percent escape
      [FormBody(FullSubmission) EXCEPT !.items[4].raw = <<"%zz">>] }
    \cup { Without(JSONBody(FullSubmission), i) : i \in 1..4 }
    \cup { Without(FormBody(FullSubmission), i) : i \in 1..4 }

Bodies ==
    { JSONBody(f) : f \in Submissions } \cup { FormBody(f) : f \in Submissions } \cup OddBodies

Requests == [method : Methods, contentType : ContentTypes, body : Bodies]

NoRequest == [method |-> "", contentType |-> EmptyString,
              body |-> [syntax |-> "empty", items |-> << >>]]

\* the zero value of ContactForm
ZeroForm == [name |-> EmptyString, email |-> EmptyString,
             subject |-> EmptyString, message |-> EmptyString]

(***************************************************************************)
(* encoding/json: Decoder.Decode into a ContactForm.                       *)
(***************************************************************************)
JSONUnescapeChar(c) == IF c = "\\n" THEN "\n" ELSE c
JSONUnescape(s) == [i \in 1..Len(s) |-> JSONUnescapeChar(s[i])]

\* a string literal may not hold a raw control character
ValidJSONString(raw) == ~ Contains(raw, "\n")

IsField(k) == \E i \in 1..4 : FieldKeys[i] = k

JSONError(b) ==
    \/ b.syntax # "json"
    \/ \E i \in 1..Len(b.items) :
          \/ b.items[i].kind = "string" /\ ~ ValidJSONString(b.items[i].raw)
          \/ b.items[i].kind = "number" /\ IsField(b.items[i].key)

RECURSIVE JSONField(_, _, _)
\* the value left in the struct field tagged k: members are applied in order,
\* null leaves the field as it is, a later member overwrites an earlier one
JSONField(items, k, acc) ==
    IF items = << >> THEN acc
    ELSE LET m == Head(items) IN
         JSONField(Tail(items), k,
                   IF m.key = k /\ m.kind = "string" THEN JSONUnescape(m.raw) ELSE acc)

DecodeJSON(b) ==
    [ err  |-> JSONError(b),
      form |-> IF b.syntax # "json" THEN ZeroForm
               ELSE [k \in {"name", "email", "subject", "message"} |->
                        JSONField(b.items, k, EmptyString)] ]

(***************************************************************************)
(* net/http: Request.ParseForm and Request.FormValue for a POST without a  *)
(* URL query.                                                              *)
(***************************************************************************)
\* url.QueryUnescape
ValidEscape(c) == c # "%zz"
QueryUnescapeChar(c) ==
    CASE c = "%40" -> "@"
      [] c = "%0A" -> "\n"
      [] c = "+"   -> " "
      [] OTHER     -> c
QueryUnescape(s) == [i \in 1..Len(s) |-> QueryUnescapeChar(s[i])]

\* mime.ParseMediaType of the Content-Type header ("" counts as
\* application/octet-stream)
MediaType(ct) ==
    IF ct = EmptyString THEN "application/octet-stream" ELSE ct[1]
MediaTypeError(ct) == ct # EmptyString /\ ct[1] = ";"

\* the body is read only when it is declared as url-encoded
FormReadsBody(ct) ==
    ~ MediaTypeError(ct) /\ MediaType(ct) = "application/x-www-form-urlencoded"

FormError(ct, b) ==
    \/ MediaTypeError(ct)
    \/ /\ FormReadsBody(ct)
       /\ \/ b.syntax = "garbage"
          \/ /\ b.syntax = "form"
             /\ \E i \in 1..Len(b.items) :
                   \E j \in 1..Len(b.items[i].raw) : ~ ValidEscape(b.items[i].raw[j])

RECURSIVE FirstValue(_, _)
\* FormValue: the first value stored under the key, "" when there is none
FirstValue(items, k) ==
    IF items = << >> THEN EmptyString
    ELSE IF Head(items).key = k THEN QueryUnescape(Head(items).raw)
    ELSE FirstValue(Tail(items), k)

FormValue(ct, b, k) ==
    IF FormReadsBody(ct) /\ b.syntax = "form" THEN FirstValue(b.items, k)
    ELSE EmptyString

ParseForm(ct, b) ==
    [ err  |-> FormError(ct, b),
      form |-> [k \in {"name", "email", "subject", "message"} |-> FormValue(ct, b, k)] ]

(***************************************************************************)
(* net/http: the ResponseWriter.                                           *)
(***************************************************************************)
NoHeaders == [n \in {} |-> EmptyString]

NewResponse == [header |-> NoHeaders, wroteHeader |-> FALSE, status |-> 0,
                sent |-> NoHeaders, body |-> << >>]

\* w.Header().Set(name, value)
SetHeader(w, name, value) ==
    [w EXCEPT !.header = [n \in DOMAIN w.header \cup {name} |->
                             IF n = name THEN value ELSE w.header[n]]]

\* w.Header().Del(name)
DelHeader(w, name) ==
    [w EXCEPT !.header = [n \in DOMAIN w.header \ {name} |-> w.header[n]]]

\* w.WriteHeader(code): the status line and a snapshot of the header map go
\* out; a second call is ignored
WriteHeader(w, code) ==
    IF w.wroteHeader THEN w
    ELSE [w EXCEPT !.wroteHeader = TRUE, !.status = code, !.sent = w.header]

\* w.Write: an implicit WriteHeader(200) when none was written
WriteBody(w, chunk) ==
    LET w1 == WriteHeader(w, 200) IN [w1 EXCEPT !.body = Append(w1.body, chunk)]

TextLine(s) == [kind |-> "text", text |-> s, object |-> {}]
JSONLine(members) == [kind |-> "json", text |-> EmptyString, object |-> members]

\* http.Error(w, msg, code)
HttpError(w, msg, code) ==
    LET w1 == DelHeader(w, "Content-Length")
        w2 == SetHeader(w1, "Content-Type", <<"text/plain; charset=utf-8">>)
        w3 == SetHeader(w2, "X-Content-Type-Options", <<"nosniff">>)
        w4 == WriteHeader(w3, code)
    IN  WriteBody(w4, TextLine(msg))

StatusOK == 200
StatusBadRequest == 400
StatusMethodNotAllowed == 405
StatusInternalServerError == 500

(***************************************************************************)
(* internal/email: the two messages and Sender.Send.                       *)
(***************************************************************************)
NotificationSubject(subject) == <<"New Contact Form Submission: ">> \o subject

NotificationBody(name, email, subject, message) ==
    Concat(<< <<"<html><body><h2>New Contact Form Submission</h2>">>,
              <<"<p><strong>Name:</strong> ">>, name, <<"</p>">>,
              <<"<p><strong>Email:</strong> ">>, email, <<"</p>">>,
              <<"<p><strong>Subject:</strong> ">>, subject, <<"</p>">>,
              <<"<p><strong>Message:</strong></p><p>">>,
              ReplaceAll(message, "\n", "<br>"), <<"</p></body></html>">> >>)

ConfirmationSubject == <<"Thank you for contacting us">>

ConfirmationBody(name, message) ==
    Concat(<< <<"<html><body><h2>Thank you for your message, ">>, name, <<"!</h2>">>,
              <<"<p>We have received your contact form submission</p><hr>">>,
              <<"<p><strong>Your message:</strong></p><p>">>,
              ReplaceAll(message, "\n", "<br>"),
              <<"</p><hr><p>Best regards</p></body></html>">> >>)

\* SendContactNotification addressed to the submitter instead of the owner
SendContactNotificationToSubmitter(s, name, email, subject, message) ==
    [ fn      |-> "SendContactNotification",
      to      |-> email,
      subject |-> NotificationSubject(subject),
      body    |-> NotificationBody(name, email, subject, message) ]

\* the arguments with which SendContactNotification calls Send
SendContactNotification(s, name, email, subject, message) ==
    [ fn      |-> "SendContactNotification",
      to      |-> s.config.RecipientEmail,
      subject |-> NotificationSubject(subject),
      body    |-> NotificationBody(name, email, subject, message) ]

\* the arguments with which SendConfirmation calls Send
SendConfirmation(s, name, email, message) ==
    [ fn      |-> "SendConfirmation",
      to      |-> email,
      subject |-> ConfirmationSubject,
      body    |-> ConfirmationBody(name, message) ]

\* msg in Send
MailMessage(s, to, subject, body) ==
    Concat(<< <<"From: ">>, s.config.FromEmail, <<"\r\n">>,
              <<"To: ">>, to, <<"\r\n">>,
              <<"Subject: ">>, subject, <<"\r\n">>,
              <<"MIME-Version: 1.0\r\n">>,
              <<"Content-Type: text/html; charset=UTF-8\r\n">>,
              <<"\r\n">>, body, <<"\r\n">> >>)

NoSend == [fn |-> "", to |-> EmptyString, subject |-> EmptyString,
           body |-> EmptyString, err |-> << >>, returned |-> FALSE]

NoSession == [steps |-> << >>, failed |-> "", open |-> FALSE, tls |-> FALSE,
              starttls |-> FALSE, auth |-> FALSE, mailFrom |-> EmptyString, rcptTo |-> EmptyString,
              data |-> EmptyString]

\* the error of the SMTP library that a failing step returns
Cause == "smtp: server error"

\* fmt.Errorf("<msg>: %w", err)
Wrap(msg) == <<msg, Cause>>

\* the session after the step named step was attempted
Attempt(session, step) == [session EXCEPT !.steps = Append(session.steps, step)]

\* a step after Dial fails: Send returns the error and the deferred
\* client.Close() drops the connection
SendFails(r, step, err) ==
    /\ smtp' = [smtp EXCEPT ![r] = [Attempt(smtp[r], step) EXCEPT !.open = FALSE,
                                                                  !.failed = step]]
    /\ send' = [send EXCEPT ![r].err = err, ![r].returned = TRUE]
    /\ pc' = [pc EXCEPT ![r] = "return"]
    /\ UNCHANGED delivered

\* smtp.Dial(addr)
Dial(r) ==
    /\ pc[r] = "dial"
    /\ \/ /\ smtp' = [smtp EXCEPT ![r] = [Attempt(NoSession, "dial") EXCEPT !.open = TRUE]]
          /\ pc' = [pc EXCEPT ![r] = "hello"]
          /\ UNCHANGED <<send, delivered>>
       \/ /\ smtp' = [smtp EXCEPT ![r] = [Attempt(NoSession, "dial") EXCEPT !.failed = "dial"]]
          /\ send' = [send EXCEPT ![r].err = Wrap("failed to connect to SMTP server"),
                                  ![r].returned = TRUE]
          /\ pc' = [pc EXCEPT ![r] = "return"]
          /\ UNCHANGED delivered
    /\ UNCHANGED <<mainVars, served, req, form, bodyRead, resp, calls, logged>>

\* client.Hello(host), then client.Extension("STARTTLS") on the server's reply
Hello(r) ==
    /\ pc[r] = "hello"
    /\ \/ \E advertised \in BOOLEAN :
             /\ smtp' = [smtp EXCEPT ![r] =
                           [Attempt(smtp[r], "hello") EXCEPT !.starttls = advertised]]
             /\ pc' = [pc EXCEPT ![r] = IF advertised THEN "starttls" ELSE "auth"]
             /\ UNCHANGED <<send, delivered>>
       \/ SendFails(r, "hello", Wrap("failed to send HELLO"))
    /\ UNCHANGED <<mainVars, served, req, form, bodyRead, resp, calls, logged>>

\* client.StartTLS(tlsConfig)
StartTLS(r) ==
    /\ pc[r] = "starttls"
    /\ \/ /\ smtp' = [smtp EXCEPT ![r] = [Attempt(smtp[r], "starttls") EXCEPT !.tls = TRUE]]
          /\ pc' = [pc EXCEPT ![r] = "auth"]
          /\ UNCHANGED <<send, delivered>>
       \/ SendFails(r, "starttls", Wrap("failed to start TLS"))
    /\ UNCHANGED <<mainVars, served, req, form, bodyRead, resp, calls, logged>>

\* Auth without the return in its error branch: Send goes on to client.Mail
AuthErrorIgnored(r) ==
    /\ pc[r] = "auth"
    /\ \/ smtp' = [smtp EXCEPT ![r] = [Attempt(smtp[r], "auth") EXCEPT !.auth = TRUE]]
       \/ smtp' = [smtp EXCEPT ![r] = [Attempt(smtp[r], "auth") EXCEPT !.failed = "auth"]]
    /\ pc' = [pc EXCEPT ![r] = "mail"]
    /\ UNCHANGED <<send, delivered>>
    /\ UNCHANGED <<mainVars, served, req, form, bodyRead, resp, calls, logged>>

\* client.Auth(smtp.PlainAuth(...))
Auth(r) ==
    /\ pc[r] = "auth"
    /\ \/ /\ smtp' = [smtp EXCEPT ![r] = [Attempt(smtp[r], "auth") EXCEPT !.auth = TRUE]]
          /\ pc' = [pc EXCEPT ![r] = "mail"]
          /\ UNCHANGED <<send, delivered>>
       \/ SendFails(r, "auth", Wrap("authentication failed"))
    /\ UNCHANGED <<mainVars, served, req, form, bodyRead, resp, calls, logged>>

\* client.Mail(s.config.FromEmail)
Mail(r) ==
    /\ pc[r] = "mail"
    /\ \/ /\ smtp' = [smtp EXCEPT ![r] =
                        [Attempt(smtp[r], "mail") EXCEPT
                            !.mailFrom = handler.emailSender.config.FromEmail]]
          /\ pc' = [pc EXCEPT ![r] = "rcpt"]
          /\ UNCHANGED <<send, delivered>>
       \/ SendFails(r, "mail", Wrap("failed to set sender"))
    /\ UNCHANGED <<mainVars, served, req, form, bodyRead, resp, calls, logged>>

\* client.Rcpt(to)
Rcpt(r) ==
    /\ pc[r] = "rcpt"
    /\ \/ /\ smtp' = [smtp EXCEPT ![r] = [Attempt(smtp[r], "rcpt") EXCEPT !.rcptTo = send[r].to]]
          /\ pc' = [pc EXCEPT ![r] = "data"]
          /\ UNCHANGED <<send, delivered>>
       \/ SendFails(r, "rcpt", Wrap("failed to set recipient"))
    /\ UNCHANGED <<mainVars, served, req, form, bodyRead, resp, calls, logged>>

\* client.Data()
Data(r) ==
    /\ pc[r] = "data"
    /\ \/ /\ smtp' = [smtp EXCEPT ![r] = Attempt(smtp[r], "data")]
          /\ pc' = [pc EXCEPT ![r] = "write"]
          /\ UNCHANGED <<send, delivered>>
       \/ SendFails(r, "data", Wrap("failed to open data writer"))
    /\ UNCHANGED <<mainVars, served, req, form, bodyRead, resp, calls, logged>>

\* w.Write(msg)
Write(r) ==
    /\ pc[r] = "write"
    /\ \/ /\ smtp' = [smtp EXCEPT ![r] =
                        [Attempt(smtp[r], "write") EXCEPT
                            !.data = MailMessage(handler.emailSender, send[r].to,
                                                 send[r].subject, send[r].body)]]
          /\ pc' = [pc EXCEPT ![r] = "close"]
          /\ UNCHANGED <<send, delivered>>
       \/ SendFails(r, "write", Wrap("failed to write message"))
    /\ UNCHANGED <<mainVars, served, req, form, bodyRead, resp, calls, logged>>

\* w.Close(): the end of the data; on success the server has accepted the
\* message for delivery
CloseData(r) ==
    /\ pc[r] = "close"
    /\ \/ /\ smtp' = [smtp EXCEPT ![r] = Attempt(smtp[r], "close")]
          /\ delivered' = [delivered EXCEPT ![r] =
                             Append(@, [from |-> smtp[r].mailFrom, to |-> smtp[r].rcptTo,
                                        data |-> smtp[r].data, tls |-> smtp[r].tls])]
          /\ pc' = [pc EXCEPT ![r] = "quit"]
          /\ UNCHANGED send
       \/ SendFails(r, "close", Wrap("failed to close data writer"))
    /\ UNCHANGED <<mainVars, served, req, form, bodyRead, resp, calls, logged>>

\* return client.Quit(): its error is returned as it is
Quit(r) ==
    /\ pc[r] = "quit"
    /\ \/ /\ smtp' = [smtp EXCEPT ![r] = [Attempt(smtp[r], "quit") EXCEPT !.open = FALSE]]
          /\ send' = [send EXCEPT ![r].err = << >>, ![r].returned = TRUE]
          /\ pc' = [pc EXCEPT ![r] = "return"]
          /\ UNCHANGED delivered
       \/ SendFails(r, "quit", <<Cause>>)
    /\ UNCHANGED <<mainVars, served, req, form, bodyRead, resp, calls, logged>>

(***************************************************************************)
(* internal/handler: ContactHandler.ServeHTTP, one goroutine per           *)
(* connection.                                                             *)
(***************************************************************************)
\* the connections of the sequential specification
Conns == {"c1"}

\* net/http after the handler has returned: a response without a status
\* gets 200
Finish(w) == WriteHeader(w, StatusOK)

CORSHeaders(h, w) ==
    LET w1 == SetHeader(w, "Access-Control-Allow-Origin", h.corsOrigin)
        w2 == SetHeader(w1, "Access-Control-Allow-Methods", <<"POST, OPTIONS">>)
    IN  SetHeader(w2, "Access-Control-Allow-Headers", <<"Content-Type">>)

\* MissingRequired without the check of the message
MissingRequiredNoMessage(f) ==
    f.name = EmptyString \/ f.email = EmptyString

\* the form fails the required-fields check
MissingRequired(f) ==
    f.name = EmptyString \/ f.email = EmptyString \/ f.message = EmptyString

SuccessBody ==
    JSONLine({ <<"status", <<"success">>>>,
               <<"message", <<"Your message has been sent successfully">>>> })

\* the server accepts a request for /contact and starts ServeHTTP on it
Accept(r) ==
    /\ mainpc = "serving"
    /\ "/contact" \in mux
    /\ pc[r] = "idle"
    /\ served < MaxRequests
    /\ served' = served + 1
    /\ \E q \in Requests : req' = [req EXCEPT ![r] = q]
    /\ pc' = [pc EXCEPT ![r] = "cors"]
    /\ UNCHANGED <<mainVars, form, bodyRead, resp, calls, send, smtp, delivered, logged>>

\* the response has gone out and the goroutine ends: the connection is free
\* for the next request, with fresh locals and a fresh ResponseWriter
EndRequest(r) ==
    /\ pc[r] = "done"
    /\ pc' = [pc EXCEPT ![r] = "idle"]
    /\ req' = [req EXCEPT ![r] = NoRequest]
    /\ form' = [form EXCEPT ![r] = ZeroForm]
    /\ bodyRead' = [bodyRead EXCEPT ![r] = FALSE]
    /\ resp' = [resp EXCEPT ![r] = NewResponse]
    /\ calls' = [calls EXCEPT ![r] = << >>]
    /\ send' = [send EXCEPT ![r] = NoSend]
    /\ smtp' = [smtp EXCEPT ![r] = NoSession]
    /\ delivered' = [delivered EXCEPT ![r] = << >>]
    /\ logged' = [logged EXCEPT ![r] = << >>]
    /\ UNCHANGED <<mainVars, served>>

\* SetCORS placed after the method check: a rejected method gets no CORS headers
SetCORSAfterMethodCheck(r) ==
    /\ pc[r] = "cors"
    /\ resp' = [resp EXCEPT ![r] = IF req[r].method \in {"OPTIONS", "POST"}
                                   THEN CORSHeaders(handler, resp[r]) ELSE resp[r]]
    /\ pc' = [pc EXCEPT ![r] = "method"]
    /\ UNCHANGED <<mainVars, served, req, form, bodyRead, calls, send, smtp, delivered, logged>>

\* the three w.Header().Set calls at the top of ServeHTTP
SetCORS(r) ==
    /\ pc[r] = "cors"
    /\ resp' = [resp EXCEPT ![r] = CORSHeaders(handler, resp[r])]
    /\ pc' = [pc EXCEPT ![r] = "method"]
    /\ UNCHANGED <<mainVars, served, req, form, bodyRead, calls, send, smtp, delivered, logged>>

\* Preflight without its return: the method check that follows writes its error
PreflightNoReturn(r) ==
    /\ pc[r] = "method"
    /\ req[r].method = "OPTIONS"
    /\ resp' = [resp EXCEPT ![r] =
                  Finish(HttpError(WriteHeader(resp[r], StatusOK), <<"Method not allowed">>,
                                   StatusMethodNotAllowed))]
    /\ pc' = [pc EXCEPT ![r] = "done"]
    /\ UNCHANGED <<mainVars, served, req, form, bodyRead, calls, send, smtp, delivered, logged>>

\* if r.Method == http.MethodOptions
Preflight(r) ==
    /\ pc[r] = "method"
    /\ req[r].method = "OPTIONS"
    /\ resp' = [resp EXCEPT ![r] = Finish(WriteHeader(resp[r], StatusOK))]
    /\ pc' = [pc EXCEPT ![r] = "done"]
    /\ UNCHANGED <<mainVars, served, req, form, bodyRead, calls, send, smtp, delivered, logged>>

\* RejectMethod answering with the status of a bad request
RejectMethodBadRequest(r) ==
    /\ pc[r] = "method"
    /\ req[r].method # "OPTIONS"
    /\ req[r].method # "POST"
    /\ resp' = [resp EXCEPT ![r] =
                  Finish(HttpError(resp[r], <<"Method not allowed">>, StatusBadRequest))]
    /\ pc' = [pc EXCEPT ![r] = "done"]
    /\ UNCHANGED <<mainVars, served, req, form, bodyRead, calls, send, smtp, delivered, logged>>

\* if r.Method != http.MethodPost
RejectMethod(r) ==
    /\ pc[r] = "method"
    /\ req[r].method # "OPTIONS"
    /\ req[r].method # "POST"
    /\ resp' = [resp EXCEPT ![r] =
                  Finish(HttpError(resp[r], <<"Method not allowed">>, StatusMethodNotAllowed))]
    /\ pc' = [pc EXCEPT ![r] = "done"]
    /\ UNCHANGED <<mainVars, served, req, form, bodyRead, calls, send, smtp, delivered, logged>>

\* ParseJSONBody decoding into a form variable shared by all goroutines
\* instead of a local one
ParseJSONBodySharedForm(r) ==
    /\ pc[r] = "method"
    /\ req[r].method = "POST"
    /\ Contains(req[r].contentType, "application/json")
    /\ bodyRead' = [bodyRead EXCEPT ![r] = TRUE]
    /\ LET d == DecodeJSON(req[r].body) IN
         IF d.err
         THEN /\ resp' = [resp EXCEPT ![r] =
                            Finish(HttpError(resp[r], <<"Invalid JSON format">>, StatusBadRequest))]
              /\ pc' = [pc EXCEPT ![r] = "done"]
              /\ UNCHANGED form
         ELSE /\ form' = [c \in DOMAIN form |-> d.form]
              /\ pc' = [pc EXCEPT ![r] = "validate"]
              /\ UNCHANGED resp
    /\ UNCHANGED <<mainVars, served, req, calls, send, smtp, delivered, logged>>

\* the JSON branch of the body parsing
ParseJSONBody(r) ==
    /\ pc[r] = "method"
    /\ req[r].method = "POST"
    /\ Contains(req[r].contentType, "application/json")
    /\ bodyRead' = [bodyRead EXCEPT ![r] = TRUE]
    /\ LET d == DecodeJSON(req[r].body) IN
         IF d.err
         THEN /\ resp' = [resp EXCEPT ![r] =
                            Finish(HttpError(resp[r], <<"Invalid JSON format">>, StatusBadRequest))]
              /\ pc' = [pc EXCEPT ![r] = "done"]
              /\ UNCHANGED form
         ELSE /\ form' = [form EXCEPT ![r] = d.form]
              /\ pc' = [pc EXCEPT ![r] = "validate"]
              /\ UNCHANGED resp
    /\ UNCHANGED <<mainVars, served, req, calls, send, smtp, delivered, logged>>

\* ParseFormBody without the line form.Subject = r.FormValue("subject")
ParseFormBodyNoSubject(r) ==
    /\ pc[r] = "method"
    /\ req[r].method = "POST"
    /\ ~ Contains(req[r].contentType, "application/json")
    /\ bodyRead' = [bodyRead EXCEPT ![r] = FormReadsBody(req[r].contentType)]
    /\ LET p == ParseForm(req[r].contentType, req[r].body) IN
         IF p.err
         THEN /\ resp' = [resp EXCEPT ![r] =
                            Finish(HttpError(resp[r], <<"Failed to parse form">>, StatusBadRequest))]
              /\ pc' = [pc EXCEPT ![r] = "done"]
              /\ UNCHANGED form
         ELSE /\ form' = [form EXCEPT ![r] = [p.form EXCEPT !.subject = EmptyString]]
              /\ pc' = [pc EXCEPT ![r] = "validate"]
              /\ UNCHANGED resp
    /\ UNCHANGED <<mainVars, served, req, calls, send, smtp, delivered, logged>>

\* the form branch of the body parsing
ParseFormBody(r) ==
    /\ pc[r] = "method"
    /\ req[r].method = "POST"
    /\ ~ Contains(req[r].contentType, "application/json")
    /\ bodyRead' = [bodyRead EXCEPT ![r] = FormReadsBody(req[r].contentType)]
    /\ LET p == ParseForm(req[r].contentType, req[r].body) IN
         IF p.err
         THEN /\ resp' = [resp EXCEPT ![r] =
                            Finish(HttpError(resp[r], <<"Failed to parse form">>, StatusBadRequest))]
              /\ pc' = [pc EXCEPT ![r] = "done"]
              /\ UNCHANGED form
         ELSE /\ form' = [form EXCEPT ![r] = p.form]
              /\ pc' = [pc EXCEPT ![r] = "validate"]
              /\ UNCHANGED resp
    /\ UNCHANGED <<mainVars, served, req, calls, send, smtp, delivered, logged>>

\* the required-fields check
Validate(r) ==
    /\ pc[r] = "validate"
    /\ IF MissingRequired(form[r])
       THEN /\ resp' = [resp EXCEPT ![r] =
                          Finish(HttpError(resp[r], <<"Name, email, and message are required">>,
                                           StatusBadRequest))]
            /\ pc' = [pc EXCEPT ![r] = "done"]
       ELSE /\ pc' = [pc EXCEPT ![r] = "notify"]
            /\ UNCHANGED resp
    /\ UNCHANGED <<mainVars, served, req, form, bodyRead, calls, send, smtp, delivered, logged>>

\* a Sender method is entered: it builds the message and calls Send
Call(r, args) ==
    /\ calls' = [calls EXCEPT ![r] = Append(@, [fn |-> args.fn, to |-> args.to,
                                                outcome |-> "pending"])]
    /\ send' = [send EXCEPT ![r] = [fn |-> args.fn, to |-> args.to, subject |-> args.subject,
                                    body |-> args.body, err |-> << >>, returned |-> FALSE]]
    /\ smtp' = [smtp EXCEPT ![r] = NoSession]
    /\ pc' = [pc EXCEPT ![r] = "dial"]

\* h.emailSender.SendContactNotification(form.Name, form.Email, form.Subject, form.Message)
CallNotification(r) ==
    /\ pc[r] = "notify"
    /\ Call(r, SendContactNotification(handler.emailSender, form[r].name, form[r].email,
                                       form[r].subject, form[r].message))
    /\ UNCHANGED <<mainVars, served, req, form, bodyRead, resp, delivered, logged>>

\* what the caller of a Sender method sees of the error it returns
Outcome(err) == IF err # << >> THEN "error" ELSE "ok"

\* the last call of the connection gets the outcome the handler observed
Observe(cs, err) == [cs EXCEPT ![Len(cs)].outcome = Outcome(err)]

\* NotificationReturn without the return in its error branch: the handler
\* goes on to the confirmation
NotificationReturnNoReturn(r) ==
    /\ pc[r] = "return"
    /\ send[r].fn = "SendContactNotification"
    /\ calls' = [calls EXCEPT ![r] = Observe(@, send[r].err)]
    /\ IF send[r].err # << >>
       THEN /\ logged' = [logged EXCEPT ![r] =
                            Append(@, <<"Failed to send email to recipient: ">> \o send[r].err)]
            /\ resp' = [resp EXCEPT ![r] =
                          HttpError(resp[r], <<"Failed to send email">>,
                                    StatusInternalServerError)]
       ELSE UNCHANGED <<resp, logged>>
    /\ pc' = [pc EXCEPT ![r] = "confirm"]
    /\ UNCHANGED <<mainVars, served, req, form, bodyRead, send, smtp, delivered>>

\* NotificationReturn passing err.Error() to http.Error
NotificationReturnLeaksError(r) ==
    /\ pc[r] = "return"
    /\ send[r].fn = "SendContactNotification"
    /\ calls' = [calls EXCEPT ![r] = Observe(@, send[r].err)]
    /\ IF send[r].err # << >>
       THEN /\ logged' = [logged EXCEPT ![r] =
                            Append(@, <<"Failed to send email to recipient: ">> \o send[r].err)]
            /\ resp' = [resp EXCEPT ![r] =
                          Finish(HttpError(resp[r], send[r].err, StatusInternalServerError))]
            /\ pc' = [pc EXCEPT ![r] = "done"]
       ELSE /\ pc' = [pc EXCEPT ![r] = "confirm"]
            /\ UNCHANGED <<resp, logged>>
    /\ UNCHANGED <<mainVars, served, req, form, bodyRead, send, smtp, delivered>>

\* SendContactNotification has returned: the if err != nil after it
NotificationReturn(r) ==
    /\ pc[r] = "return"
    /\ send[r].fn = "SendContactNotification"
    /\ calls' = [calls EXCEPT ![r] = Observe(@, send[r].err)]
    /\ IF send[r].err # << >>
       THEN /\ logged' = [logged EXCEPT ![r] =
                            Append(@, <<"Failed to send email to recipient: ">> \o send[r].err)]
            /\ resp' = [resp EXCEPT ![r] =
                          Finish(HttpError(resp[r], <<"Failed to send email">>,
                                           StatusInternalServerError))]
            /\ pc' = [pc EXCEPT ![r] = "done"]
       ELSE /\ pc' = [pc EXCEPT ![r] = "confirm"]
            /\ UNCHANGED <<resp, logged>>
    /\ UNCHANGED <<mainVars, served, req, form, bodyRead, send, smtp, delivered>>

\* h.emailSender.SendConfirmation(form.Name, form.Email, form.Message)
CallConfirmation(r) ==
    /\ pc[r] = "confirm"
    /\ Call(r, SendConfirmation(handler.emailSender, form[r].name, form[r].email,
                                form[r].message))
    /\ UNCHANGED <<mainVars, served, req, form, bodyRead, resp, delivered, logged>>

\* the success response: Content-Type, WriteHeader(200) and the JSON body
WriteSuccess(w) ==
    LET w1 == SetHeader(w, "Content-Type", <<"application/json">>)
        w2 == WriteHeader(w1, StatusOK)
    IN  WriteBody(w2, SuccessBody)

\* ConfirmationReturn treating the confirmation like the notification
ConfirmationReturnFails(r) ==
    /\ pc[r] = "return"
    /\ send[r].fn = "SendConfirmation"
    /\ calls' = [calls EXCEPT ![r] = Observe(@, send[r].err)]
    /\ logged' = [logged EXCEPT ![r] =
                    IF send[r].err # << >>
                    THEN Append(@, <<"Failed to send confirmation email to customer: ">>
                                     \o send[r].err)
                    ELSE @]
    /\ resp' = [resp EXCEPT ![r] =
                  IF send[r].err # << >>
                  THEN Finish(HttpError(resp[r], <<"Failed to send email">>,
                                        StatusInternalServerError))
                  ELSE Finish(WriteSuccess(resp[r]))]
    /\ pc' = [pc EXCEPT ![r] = "done"]
    /\ UNCHANGED <<mainVars, served, req, form, bodyRead, send, smtp, delivered>>

\* SendConfirmation has returned: its error is logged and the success
\* response is written
ConfirmationReturn(r) ==
    /\ pc[r] = "return"
    /\ send[r].fn = "SendConfirmation"
    /\ calls' = [calls EXCEPT ![r] = Observe(@, send[r].err)]
    /\ logged' = [logged EXCEPT ![r] =
                    IF send[r].err # << >>
                    THEN Append(@, <<"Failed to send confirmation email to customer: ">>
                                     \o send[r].err)
                    ELSE @]
    /\ resp' = [resp EXCEPT ![r] = Finish(WriteSuccess(resp[r]))]
    /\ pc' = [pc EXCEPT ![r] = "done"]
    /\ UNCHANGED <<mainVars, served, req, form, bodyRead, send, smtp, delivered>>

(***************************************************************************)
(* The specification.                                                      *)
(***************************************************************************)
Init ==
    /\ env \in Environments
    /\ mainpc = "load"
    /\ cfg = ZeroConfig
    /\ sender = NewSender(ZeroConfig)
    /\ handler = NewContactHandler(NewSender(ZeroConfig), EmptyString)
    /\ mux = {}
    /\ served = 0
    /\ pc = [r \in Conns |-> "idle"]
    /\ req = [r \in Conns |-> NoRequest]
    /\ form = [r \in Conns |-> ZeroForm]
    /\ bodyRead = [r \in Conns |-> FALSE]
    /\ resp = [r \in Conns |-> NewResponse]
    /\ calls = [r \in Conns |-> << >>]
    /\ send = [r \in Conns |-> NoSend]
    /\ smtp = [r \in Conns |-> NoSession]
    /\ delivered = [r \in Conns |-> << >>]
    /\ logged = [r \in Conns |-> << >>]

Next ==
    \/ MainLoad
    \/ MainValidate
    \/ MainRegister
    \/ MainListen
    \/ \E r \in DOMAIN pc :
          \/ Accept(r)
          \/ EndRequest(r)
          \/ SetCORS(r)
          \/ Preflight(r)
          \/ RejectMethod(r)
          \/ ParseJSONBody(r)
          \/ ParseFormBody(r)
          \/ Validate(r)
          \/ CallNotification(r)
          \/ NotificationReturn(r)
          \/ CallConfirmation(r)
          \/ ConfirmationReturn(r)
          \/ Dial(r)
          \/ Hello(r)
          \/ StartTLS(r)
          \/ Auth(r)
          \/ Mail(r)
          \/ Rcpt(r)
          \/ Data(r)
          \/ Write(r)
          \/ CloseData(r)
          \/ Quit(r)

Spec == Init /\ [][Next]_vars

(***************************************************************************)
(* The concurrent specification: net/http runs ServeHTTP of every          *)
(* connection on a goroutine of its own, so the steps of two requests      *)
(* interleave.  The process starts with the required variables set.        *)
(***************************************************************************)
ConcurrentConns == {"c1", "c2"}

\* the requests the two clients send
ConcurrentRequests ==
    { q \in Requests :
        \/ /\ q.method = "OPTIONS"
           /\ q.contentType = EmptyString
           /\ q.body.syntax = "empty"
        \/ /\ q.method = "GET"
           /\ q.contentType = EmptyString
           /\ q.body.syntax = "empty"
        \/ /\ q.method = "POST"
           /\ q.contentType = <<"application/json">>
           /\ q.body \in { JSONBody(FullSubmission),
                           JSONBody([FullSubmission EXCEPT !.name = EmptyString]) }
        \/ /\ q.method = "POST"
           /\ q.contentType = <<"application/x-www-form-urlencoded">>
           /\ q.body \in { FormBody([FullSubmission EXCEPT !.subject = EmptyString]),
                           [FormBody(FullSubmission) EXCEPT !.items[4].raw = <<"%zz">>] } }

ConcurrentEnvironments ==
    { e \in Environments :
        /\ e["SMTP_USER"] # EmptyString
        /\ e["SMTP_PASSWORD"] # EmptyString
        /\ e["RECIPIENT_EMAIL"] # EmptyString
        /\ e["FROM_EMAIL"] # EmptyString
        /\ e["CORS_ORIGIN"] = EmptyString }

\* the server accepts one of the clients' requests on connection r
AcceptConcurrent(r) ==
    /\ mainpc = "serving"
    /\ "/contact" \in mux
    /\ pc[r] = "idle"
    /\ served < MaxRequests
    /\ served' = served + 1
    /\ \E q \in ConcurrentRequests : req' = [req EXCEPT ![r] = q]
    /\ pc' = [pc EXCEPT ![r] = "cors"]
    /\ UNCHANGED <<mainVars, form, bodyRead, resp, calls, send, smtp, delivered, logged>>

InitConcurrent ==
    /\ env \in ConcurrentEnvironments
    /\ mainpc = "load"
    /\ cfg = ZeroConfig
    /\ sender = NewSender(ZeroConfig)
    /\ handler = NewContactHandler(NewSender(ZeroConfig), EmptyString)
    /\ mux = {}
    /\ served = 0
    /\ pc = [r \in ConcurrentConns |-> "idle"]
    /\ req = [r \in ConcurrentConns |-> NoRequest]
    /\ form = [r \in ConcurrentConns |-> ZeroForm]
    /\ bodyRead = [r \in ConcurrentConns |-> FALSE]
    /\ resp = [r \in ConcurrentConns |-> NewResponse]
    /\ calls = [r \in ConcurrentConns |-> << >>]
    /\ send = [r \in ConcurrentConns |-> NoSend]
    /\ smtp = [r \in ConcurrentConns |-> NoSession]
    /\ delivered = [r \in ConcurrentConns |-> << >>]
    /\ logged = [r \in ConcurrentConns |-> << >>]

NextConcurrent ==
    \/ MainLoad
    \/ MainValidate
    \/ MainRegister
    \/ MainListen
    \/ \E r \in DOMAIN pc :
          \/ AcceptConcurrent(r)
          \/ EndRequest(r)
          \/ SetCORS(r)
          \/ Preflight(r)
          \/ RejectMethod(r)
          \/ ParseJSONBody(r)
          \/ ParseFormBody(r)
          \/ Validate(r)
          \/ CallNotification(r)
          \/ NotificationReturn(r)
          \/ CallConfirmation(r)
          \/ ConfirmationReturn(r)
          \/ Dial(r)
          \/ Hello(r)
          \/ StartTLS(r)
          \/ Auth(r)
          \/ Mail(r)
          \/ Rcpt(r)
          \/ Data(r)
          \/ Write(r)
          \/ CloseData(r)
          \/ Quit(r)

SpecConcurrent == InitConcurrent /\ [][NextConcurrent]_vars

(***************************************************************************)
(* Properties.                                                             *)
(***************************************************************************)
ConnSet == DOMAIN pc

\* the names of the Sender methods a connection has called, in order
Called(r) == [i \in 1..Len(calls[r]) |-> calls[r][i].fn]

\* the request of r passed parsing and the required-fields check
ValidSubmission(r) ==
    /\ req[r].method = "POST"
    /\ form[r].name # EmptyString
    /\ form[r].email # EmptyString
    /\ form[r].message # EmptyString

HasHeader(h, n, v) == n \in DOMAIN h /\ h[n] = v

\* the response of r is the plain-text error msg with status code
PlainError(r, code, msg) ==
    /\ resp[r].status = code
    /\ HasHeader(resp[r].sent, "Content-Type", <<"text/plain; charset=utf-8">>)
    /\ resp[r].body = <<TextLine(<<msg>>)>>

\* the response of r is the JSON success response
SuccessResponse(r) ==
    /\ resp[r].status = StatusOK
    /\ HasHeader(resp[r].sent, "Content-Type", <<"application/json">>)
    /\ resp[r].body = <<SuccessBody>>

\* C1 (as stated): every valid submission that has been answered made exactly
\* one notification call and exactly one confirmation call, in that order.
C1_ExactlyOneOfEach ==
    \A r \in ConnSet :
        (pc[r] = "done" /\ ValidSubmission(r)) =>
            Called(r) = <<"SendContactNotification", "SendConfirmation">>

\* C1 (amended): a valid submission makes exactly one notification call; it
\* makes exactly one confirmation call, after the notification has returned
\* without error, and none when the notification returned an error.
C1_NotificationThenConfirmation ==
    \A r \in ConnSet :
        /\ \/ Called(r) = << >>
           \/ Called(r) = <<"SendContactNotification">>
           \/ /\ Called(r) = <<"SendContactNotification", "SendConfirmation">>
              /\ calls[r][1].outcome = "ok"
        /\ (pc[r] = "done" /\ ValidSubmission(r)) =>
              /\ Called(r) # << >>
              /\ calls[r][1].outcome = "ok" => Len(calls[r]) = 2
              /\ calls[r][1].outcome = "error" => Len(calls[r]) = 1

C1_Witness ==
    \E r \in ConnSet :
        /\ pc[r] = "done"
        /\ ValidSubmission(r)
        /\ Called(r) = <<"SendContactNotification", "SendConfirmation">>

\* the notification call of r has returned an error
NotificationFailed(r) ==
    /\ send[r].fn = "SendContactNotification"
    /\ send[r].returned
    /\ send[r].err # << >>

\* C2: when the notification call returns an error, SendConfirmation is never
\* called and the response is 500 with the fixed text "Failed to send email",
\* which holds no part of the error.
C2_NotificationFailure ==
    \A r \in ConnSet :
        NotificationFailed(r) =>
            /\ Called(r) = <<"SendContactNotification">>
            /\ pc[r] \in {"return", "done"}
            /\ pc[r] = "done" =>
                  /\ PlainError(r, StatusInternalServerError, "Failed to send email")
                  /\ \A i \in 1..Len(resp[r].body) : \A j \in 1..Len(send[r].err) :
                        ~ Contains(resp[r].body[i].text, send[r].err[j])

C2_Witness ==
    \E r \in ConnSet :
        /\ pc[r] = "done"
        /\ NotificationFailed(r)
        /\ resp[r].status = StatusInternalServerError

\* C3: once both calls were made the response is 200 with the success body,
\* whether the confirmation returned an error or not.
C3_ConfirmationFailureIgnored ==
    \A r \in ConnSet :
        (pc[r] = "done" /\ Len(calls[r]) = 2) =>
            /\ calls[r][2].outcome \in {"ok", "error"}
            /\ SuccessResponse(r)

C3_Witness ==
    \E r \in ConnSet :
        /\ pc[r] = "done"
        /\ Len(calls[r]) = 2
        /\ calls[r][1].outcome = "ok"
        /\ calls[r][2].outcome = "error"
        /\ send[r].fn = "SendConfirmation"
        /\ send[r].err # << >>
        /\ resp[r].status = StatusOK

SomeRequiredEmpty(f) ==
    f.name = EmptyString \/ f.email = EmptyString \/ f.message = EmptyString

\* the request of r is rejected with 400 and msg, without any dispatch
Rejected(r, msg) ==
    /\ calls[r] = << >>
    /\ delivered[r] = << >>
    /\ smtp[r] = NoSession
    /\ pc[r] = "done" => PlainError(r, StatusBadRequest, msg)

\* C4: a POST whose body fails to parse, or whose parsed name, email or
\* message is empty, is answered 400 with the message of its case and makes
\* no dispatch.
C4_BadSubmissionRejected ==
    \A r \in ConnSet :
        req[r].method = "POST" =>
            LET q == req[r]
                json == Contains(q.contentType, "application/json")
                d == DecodeJSON(q.body)
                p == ParseForm(q.contentType, q.body)
            IN  /\ (json /\ d.err) => Rejected(r, "Invalid JSON format")
                /\ (~ json /\ p.err) => Rejected(r, "Failed to parse form")
                /\ (json /\ ~ d.err /\ SomeRequiredEmpty(d.form)) =>
                       Rejected(r, "Name, email, and message are required")
                /\ (~ json /\ ~ p.err /\ SomeRequiredEmpty(p.form)) =>
                       Rejected(r, "Name, email, and message are required")

C4_Witness ==
    \E r \in ConnSet :
        /\ pc[r] = "done"
        /\ req[r].method = "POST"
        /\ req[r].body.syntax = "form"
        /\ ~ Contains(req[r].contentType, "application/json")
        /\ ~ ParseForm(req[r].contentType, req[r].body).err
        /\ form[r].name # EmptyString
        /\ form[r].email # EmptyString
        /\ form[r].message = EmptyString
        /\ resp[r].status = StatusBadRequest

CORSNames == {"Access-Control-Allow-Origin", "Access-Control-Allow-Methods",
              "Access-Control-Allow-Headers"}

\* C5: an OPTIONS request is answered 200 with an empty body and the three
\* CORS headers; its body is not read, its fields are not validated and
\* nothing is dispatched.
C5_Preflight ==
    \A r \in ConnSet :
        req[r].method = "OPTIONS" =>
            /\ pc[r] \in {"cors", "method", "done"}
            /\ ~ bodyRead[r]
            /\ form[r] = ZeroForm
            /\ calls[r] = << >>
            /\ delivered[r] = << >>
            /\ pc[r] = "done" =>
                  /\ resp[r].status = StatusOK
                  /\ resp[r].body = << >>
                  /\ CORSNames \subseteq DOMAIN resp[r].sent

C5_Witness ==
    \E r \in ConnSet :
        /\ pc[r] = "done"
        /\ req[r].method = "OPTIONS"
        /\ req[r].body = JSONBody(FullSubmission)
        /\ resp[r].status = StatusOK

\* C6: a request with a method other than POST and OPTIONS is answered 405
\* in plain text and dispatches nothing, whatever its body and Content-Type.
C6_MethodNotAllowed ==
    \A r \in ConnSet :
        (pc[r] # "idle" /\ req[r].method \notin {"POST", "OPTIONS"}) =>
            /\ pc[r] \in {"cors", "method", "done"}
            /\ ~ bodyRead[r]
            /\ calls[r] = << >>
            /\ delivered[r] = << >>
            /\ pc[r] = "done" => PlainError(r, StatusMethodNotAllowed, "Method not allowed")

C6_Witness ==
    \E r \in ConnSet :
        /\ pc[r] = "done"
        /\ req[r].method = "GET"
        /\ req[r].body = JSONBody(FullSubmission)
        /\ req[r].contentType = <<"application/json">>
        /\ resp[r].status = StatusMethodNotAllowed

\* C7: every response that has its status written carries the three CORS
\* headers with the configured origin, "POST, OPTIONS" and "Content-Type":
\* they were in the header map when the status went out.  Every finished
\* request has its status written.
C7_CORSOnEveryPath ==
    \A r \in ConnSet :
        /\ pc[r] = "done" => resp[r].wroteHeader
        /\ resp[r].wroteHeader =>
              /\ HasHeader(resp[r].sent, "Access-Control-Allow-Origin", cfg.CORSOrigin)
              /\ HasHeader(resp[r].sent, "Access-Control-Allow-Methods", <<"POST, OPTIONS">>)
              /\ HasHeader(resp[r].sent, "Access-Control-Allow-Headers", <<"Content-Type">>)

C7_Witness ==
    \E r \in ConnSet :
        /\ pc[r] = "done"
        /\ resp[r].status = StatusMethodNotAllowed
        /\ cfg.CORSOrigin = <<"https://site.example">>
        /\ HasHeader(resp[r].sent, "Access-Control-Allow-Origin", <<"https://site.example">>)

\* one of the three required variables is unset or empty
RequiredUnset ==
    \/ env["SMTP_USER"] = EmptyString
    \/ env["SMTP_PASSWORD"] = EmptyString
    \/ env["RECIPIENT_EMAIL"] = EmptyString

\* C8: with SMTP_USER, SMTP_PASSWORD or RECIPIENT_EMAIL unset the process
\* ends in log.Fatal before the route is registered and before it listens;
\* no request is served.
C8_FailFast ==
    RequiredUnset =>
        /\ mainpc \in {"load", "validate", "fatal"}
        /\ mux = {}
        /\ served = 0
        /\ \A r \in ConnSet : pc[r] = "idle"

C8_Witness ==
    /\ mainpc = "fatal"
    /\ env["SMTP_USER"] # EmptyString
    /\ env["SMTP_PASSWORD"] # EmptyString
    /\ env["RECIPIENT_EMAIL"] = EmptyString
    /\ mux = {}

\* C9: the process does not serve, and Send is not called, with an empty
\* sender address.
C9_SenderRequired ==
    /\ mainpc = "serving" => cfg.FromEmail # EmptyString
    /\ \A r \in ConnSet :
          calls[r] # << >> => handler.emailSender.config.FromEmail # EmptyString

\* C10: the notification goes to the configured recipient, whatever the
\* request holds, and the confirmation to the e-mail field of the submission.
C10_Destinations ==
    \A r \in ConnSet :
        /\ \A i \in 1..Len(calls[r]) :
              /\ calls[r][i].fn = "SendContactNotification" =>
                    calls[r][i].to = cfg.RecipientEmail
              /\ calls[r][i].fn = "SendConfirmation" => calls[r][i].to = form[r].email
        /\ send[r].fn # "" => send[r].to = calls[r][Len(calls[r])].to
        /\ smtp[r].rcptTo # EmptyString => smtp[r].rcptTo = send[r].to
        /\ \A i \in 1..Len(delivered[r]) : delivered[r][i].to = calls[r][i].to

C10_Witness ==
    \E r \in ConnSet :
        /\ pc[r] = "done"
        /\ Len(delivered[r]) = 2
        /\ form[r].email # cfg.RecipientEmail
        /\ delivered[r][1].to = cfg.RecipientEmail
        /\ delivered[r][2].to = form[r].email

\* the handler of r is past the parsing of the body
Parsed(r) == pc[r] \notin {"idle", "cors", "method"}

\* the fields f reached the handler of r: they are the parsed form, and the
\* arguments of the running or last dispatch are built from them
Carried(r, f) ==
    /\ form[r] = f
    /\ pc[r] = "done" => (resp[r].status = StatusBadRequest <=> SomeRequiredEmpty(f))
    /\ LET n == SendContactNotification(handler.emailSender, f.name, f.email,
                                        f.subject, f.message)
           c == SendConfirmation(handler.emailSender, f.name, f.email, f.message)
       IN  /\ send[r].fn = "SendContactNotification" =>
                  /\ send[r].to = n.to
                  /\ send[r].subject = n.subject
                  /\ send[r].body = n.body
           /\ send[r].fn = "SendConfirmation" =>
                  /\ send[r].to = c.to
                  /\ send[r].subject = c.subject
                  /\ send[r].body = c.body

StepsWithTLS ==
    <<"dial", "hello", "starttls", "auth", "mail", "rcpt", "data", "write", "close", "quit">>
StepsWithoutTLS ==
    <<"dial", "hello", "auth", "mail", "rcpt", "data", "write", "close", "quit">>

IsPrefix(s, t) == Len(s) <= Len(t) /\ SubSeq(t, 1, Len(s)) = s

\* C12: the steps of one Send are a prefix of connect, hello, TLS upgrade
\* (exactly when the server advertised STARTTLS), authenticate, set sender,
\* set recipient, data, write, close, quit, each at most once; a failed step
\* is the last one and Send has returned an error; Send returns success
\* only with every step done and none failed.
C12_SendSteps ==
    \A r \in ConnSet :
        LET s == smtp[r]
            order == IF s.starttls THEN StepsWithTLS ELSE StepsWithoutTLS
        IN  /\ IsPrefix(s.steps, order)
            /\ s.tls => s.starttls
            /\ s.auth => s.tls = s.starttls
            /\ s.failed # "" =>
                  /\ s.steps # << >>
                  /\ s.steps[Len(s.steps)] = s.failed
                  /\ send[r].returned
                  /\ send[r].err # << >>
                  /\ pc[r] \in {"return", "done"}
            /\ send[r].returned =>
                  (send[r].err = << >> <=> (s.failed = "" /\ s.steps = order))
            /\ (send[r].fn # "" /\ ~ send[r].returned) =>
                  /\ Len(s.steps) < Len(order)
                  /\ pc[r] = order[Len(s.steps) + 1]

C12_Witness ==
    \E r \in ConnSet :
        /\ send[r].fn = "SendContactNotification"
        /\ send[r].returned
        /\ send[r].err = << >>
        /\ smtp[r].starttls
        /\ smtp[r].steps = StepsWithTLS

\* C13: a request answered 500 leaves no notification accepted by the SMTP
\* server, also when the data was transferred and the quit failed.
C13_FailedMeansNotDelivered ==
    \A r \in ConnSet :
        (pc[r] = "done" /\ resp[r].status = StatusInternalServerError) =>
            delivered[r] = << >>

\* everything the goroutine of connection r owns
ConnState(r) ==
    <<pc[r], req[r], form[r], bodyRead[r], resp[r], calls[r], send[r], smtp[r],
      delivered[r], logged[r]>>

\* the fields the handler parses out of the request q
ParsedFields(q) ==
    IF Contains(q.contentType, "application/json")
    THEN DecodeJSON(q.body) ELSE ParseForm(q.contentType, q.body)

\* the status a request q gets, given the outcome of its own notification
ExpectedStatus(q, notification) ==
    CASE q.method = "OPTIONS" -> StatusOK
      [] q.method \notin {"OPTIONS", "POST"} -> StatusMethodNotAllowed
      [] OTHER ->
           IF ParsedFields(q).err \/ SomeRequiredEmpty(ParsedFields(q).form)
           THEN StatusBadRequest
           ELSE IF notification = "error" THEN StatusInternalServerError ELSE StatusOK

\* what r has done follows from its own request and its own dispatches
OwnRequestOnly(r) ==
    /\ (Parsed(r) /\ req[r].method = "POST" /\ ~ ParsedFields(req[r]).err) =>
           form[r] = ParsedFields(req[r]).form
    /\ \A i \in 1..Len(calls[r]) :
           calls[r][i].to = IF calls[r][i].fn = "SendContactNotification"
                            THEN cfg.RecipientEmail
                            ELSE ParsedFields(req[r]).form.email
    /\ (send[r].returned /\ pc[r] = "done") =>
           calls[r][Len(calls[r])].outcome = IF send[r].err = << >> THEN "ok" ELSE "error"
    /\ pc[r] = "done" =>
           resp[r].status =
               ExpectedStatus(req[r], IF calls[r] = << >> THEN "none" ELSE calls[r][1].outcome)

\* a step changes the state of at most one connection and, once the server
\* serves, leaves the configuration as it is
OneConnectionPerStep ==
    /\ \A r1, r2 \in ConnSet :
          (ConnState(r1)' # ConnState(r1) /\ ConnState(r2)' # ConnState(r2)) => r1 = r2
    /\ mainpc = "serving" =>
          /\ env' = env
          /\ cfg' = cfg
          /\ sender' = sender
          /\ handler' = handler

\* C14: under every interleaving of the requests of two connections the
\* configuration is not modified once the server serves, a step of one
\* request changes nothing of the other, and the parsed fields, dispatches
\* and status of a request follow from its own request and its own dispatch
\* outcomes.
C14_Isolation ==
    /\ [](\A r \in ConnSet : OwnRequestOnly(r))
    /\ [][OneConnectionPerStep]_vars

C14_Witness ==
    /\ pc["c1"] = "quit"
    /\ pc["c2"] = "auth"
    /\ form["c1"] = FullSubmission
    /\ form["c2"] = [FullSubmission EXCEPT !.subject = EmptyString]
    /\ send["c1"].fn = "SendConfirmation"
    /\ send["c2"].fn = "SendContactNotification"
    /\ calls["c1"][1].outcome = "ok"

====
